---- MODULE Spec2Model ----
(***************************************************************************)
(* A model of modules.py: the layer primitives embed, normalize,          *)
(* highwaynet, conv1d and conv1d_transpose.                                *)
(*                                                                         *)
(* The functions build TensorFlow-1 graph pieces: a call registers the    *)
(* variables it owns in the graph's variable store (tf.get_variable,      *)
(* tf.Variable, the tf.layers kernels) and returns a tensor whose value   *)
(* is a function of the fed input and of the current values of those      *)
(* variables.  A call action below does both: it updates the store as the *)
(* code does, and records in ret the returned tensor evaluated on one     *)
(* input and one valuation of the parameters.                              *)
(*                                                                         *)
(* Numbers are fixed point with Scale fractional steps: a tensor entry v  *)
(* stands for v / Scale.  Weights, biases, scales and shifts are integers.*)
(* Tensors are sequences: batch -> time -> channel.                        *)
(***************************************************************************)
EXTENDS Integers, Sequences, FiniteSets, TLC

VARIABLES store, opened, pc, ret

vars == <<store, opened, pc, ret>>

(* ------------------------------ bounds ------------------------------- *)
Scale == 4
MaxVocab == 3
MaxUnits == 2
MaxIds == 2

(* --------------------------- small helpers --------------------------- *)
RECURSIVE SumSeq(_)
SumSeq(s) == IF s = <<>> THEN 0 ELSE Head(s) + SumSeq(Tail(s))

Abs(x) == IF x < 0 THEN -x ELSE x

Sign(x) == IF x > 0 THEN 1 ELSE IF x < 0 THEN -1 ELSE 0

Zeros(n) == [j \in 1..n |-> 0]

NoRet == [op |-> "none"]

(* ------------------------- the variable store ------------------------ *)
(* tf.get_variable under a variable scope: with reuse the variable must   *)
(* exist with the same shape, without reuse it must not exist.            *)
Exists(st, name) == \E v \in st : v.name = name

GetVariableOk(st, name, shape, reuse) ==
    IF reuse
    THEN [name |-> name, shape |-> shape] \in st
    ELSE ~Exists(st, name)

GetVariable(st, name, shape, reuse) ==
    IF reuse THEN st ELSE st \cup {[name |-> name, shape |-> shape]}

(* A variable's name: the variable scope of the calling function, the     *)
(* layer scope inside it with the index that makes it unique, and the     *)
(* variable's own name.                                                   *)
VarName(scope, layer, idx, var) ==
    [scope |-> scope, layer |-> layer, idx |-> idx, var |-> var]

(* ------------------------------- embed ------------------------------- *)
ZeroPadTable_NoSlice(table, num_units) ==
    <<Zeros(num_units)>> \o table

(* lookup_table[1:, :] preceded by one row of zeros (lines 38-40).        *)
ZeroPadTable(table, num_units) ==
    <<Zeros(num_units)>> \o SubSeq(table, 2, Len(table))

EffectiveTable(table, num_units, zero_pad) ==
    IF zero_pad THEN ZeroPadTable(table, num_units) ELSE table

InRange(params, ids) == \A k \in 1..Len(ids) : ids[k] \in 0..(Len(params) - 1)

(* tf.nn.embedding_lookup (a gather).  The CPU kernel rejects an id       *)
(* outside the table; the GPU kernel stores zeros for it.                 *)
EmbeddingLookupFails(params, ids, device) ==
    ~InRange(params, ids) /\ device = "cpu"

EmbeddingLookup(params, ids, num_units) ==
    [k \in 1..Len(ids) |->
        IF ids[k] \in 0..(Len(params) - 1) THEN params[ids[k] + 1]
        ELSE Zeros(num_units)]

TableRows == {-1, 1}

(* Stored tables: row i holds TableRows-valued entries, one value per row.*)
Tables(vocab_size, num_units) ==
    { [i \in 1..vocab_size |-> [j \in 1..num_units |-> r[i] * (i + j)]] :
        r \in [1..vocab_size -> TableRows] }

IdSeqs(vocab_size) ==
    UNION { [1..n -> (-1)..vocab_size] : n \in 1..MaxIds }

Devices == {"cpu", "gpu"}

embed ==
    /\ pc = "idle"
    /\ \E vocab_size \in 1..MaxVocab, num_units \in 1..MaxUnits,
          zero_pad \in BOOLEAN, reuse \in BOOLEAN, device \in Devices :
       \E table \in Tables(vocab_size, num_units), ids \in IdSeqs(vocab_size) :
         LET name  == VarName("embedding", "", 0, "lookup_table")
             shape == <<vocab_size, num_units>>
             args  == [vocab_size |-> vocab_size, num_units |-> num_units,
                       zero_pad |-> zero_pad, reuse |-> reuse,
                       ids |-> ids, table |-> table, device |-> device]
         IN  IF ~GetVariableOk(store, name, shape, reuse)
             THEN /\ ret' = [op |-> "embed", args |-> args, ok |-> FALSE,
                             err |-> "ValueError"]
                  /\ store' = store
             ELSE LET params == EffectiveTable(table, num_units, zero_pad)
                  IN /\ store' = GetVariable(store, name, shape, reuse)
                     /\ ret' = IF EmbeddingLookupFails(params, ids, device)
                               THEN [op |-> "embed", args |-> args, ok |-> FALSE,
                                     err |-> "IndexError"]
                               ELSE [op |-> "embed", args |-> args, ok |-> TRUE,
                                     out |-> EmbeddingLookup(params, ids, num_units)]
    /\ pc' = "returned"
    /\ UNCHANGED opened

(* ----------------------------- tensors ------------------------------ *)
MaxBatch == 2
MaxLen == 2
MaxChan == 2
MaxVars == 5

Shape(x) == <<Len(x), Len(x[1]), Len(x[1][1])>>

(* Channel vectors an input position may hold: all zero, alternating     *)
(* +1/-1 (sums to zero on an even channel count) and a ramp 0, 1, 2 ...   *)
Frames(C) ==
    { Zeros(C),
      [c \in 1..C |-> IF c % 2 = 1 THEN Scale ELSE -Scale],
      [c \in 1..C |-> (c - 1) * Scale] }

Negate(seq) == [t \in 1..Len(seq) |-> [c \in 1..Len(seq[t]) |-> -seq[t][c]]]

(* Input tensors of shape (N, L, C): odd batch rows hold a sequence of    *)
(* frames, even batch rows its negation.                                  *)
Tensors(N, L, C) ==
    { [b \in 1..N |-> IF b % 2 = 1 THEN s ELSE Negate(s)] :
        s \in [1..L -> Frames(C)] }

(* ----------------------------- normalize ----------------------------- *)
Isqrt(m, hi) == CHOOSE r \in 0..hi : r * r <= m /\ m < (r + 1) * (r + 1)

RECURSIVE Gcd(_, _)
Gcd(a, b) == IF b = 0 THEN a ELSE Gcd(b, a % b)

RECURSIVE GcdSeq(_)
GcdSeq(s) == IF s = <<>> THEN 0 ELSE Gcd(Abs(Head(s)), GcdSeq(Tail(s)))

RECURSIVE SumSq(_)
SumSq(s) == IF s = <<>> THEN 0 ELSE Head(s) * Head(s) + SumSq(Tail(s))

(* (v - mean) * rsqrt(variance + epsilon) for every entry of the          *)
(* reduction group g, in fixed point.  With n = Len(g), S the sum and     *)
(* dev[k] = n*g[k] - S, the value at k is dev[k]*sqrt(n)/sqrt(sum dev^2); *)
(* the deviations are first divided by their common divisor, which leaves *)
(* the quotient as it is.  epsilon is below the resolution, and a zero    *)
(* variance gives zero deviations.                                        *)
NormFP(g) ==
    LET n   == Len(g)
        S   == SumSeq(g)
        dev == [k \in 1..n |-> n * g[k] - S]
        G   == GcdSeq(dev)
    IN  IF G = 0 THEN [k \in 1..n |-> 0]
        ELSE LET rd == [k \in 1..n |-> dev[k] \div G]
                 ss == SumSq(rd)
             IN  [k \in 1..n |->
                    Sign(rd[k]) *
                    Isqrt((Scale * Scale * rd[k] * rd[k] * n) \div ss, Scale * n)]

RECURSIVE Flatten(_)
Flatten(ss) == IF ss = <<>> THEN <<>> ELSE Head(ss) \o Flatten(Tail(ss))

(* The entries reduced together:                                          *)
(*   axis -1 (ln): the channels of position (b, t)                        *)
(*   axis 1 (ins): the time positions of (b, c)                           *)
(*   bn, training: every batch row and time position of channel c         *)
GroupTime(x, b, c) == [u \in 1..Len(x[b]) |-> x[b][u][c]]

GroupBatch(x, c) ==
    Flatten([bb \in 1..Len(x) |-> [u \in 1..Len(x[bb]) |-> x[bb][u][c]]])

BatchIndex(x, b, t) == (b - 1) * Len(x[1]) + t

MapT(x, F(_, _, _)) ==
    [b \in 1..Len(x) |-> [t \in 1..Len(x[b]) |->
        [c \in 1..Len(x[b][t]) |-> F(b, t, c)]]]

(* lines 98, 103, 106: moments over reduction_axis = -1 if type == "ln"   *)
(* else 1, and the normalized tensor                                      *)
Normalized(x, type) ==
    IF type = "ln"
    THEN [b \in 1..Len(x) |-> [t \in 1..Len(x[b]) |-> NormFP(x[b][t])]]
    ELSE LET nv == [b \in 1..Len(x) |->
                      [c \in 1..Len(x[b][1]) |-> NormFP(GroupTime(x, b, c))]]
         IN  MapT(x, LAMBDA b, t, c : nv[b][c][t])

(* line 108: masks = sign(abs(reduce_sum(inputs, -1))) *)
Masks(x, b, t) == Sign(Abs(SumSeq(x[b][t])))

(* lines 107-110 *)
LayerNormOut(x, type, masking, gamma, beta) ==
    LET normalized == Normalized(x, type)
        masked(b, t, c) ==
            IF masking THEN normalized[b][t][c] * Masks(x, b, t)
            ELSE normalized[b][t][c]
        outv(b, t, c) == gamma[c] * masked(b, t, c) + beta[c] * Scale
    IN  MapT(x, outv)

SDiv(a, k) == Sign(a) * (Abs(a) \div k)

(* tf.layers.batch_normalization: batch statistics when training, the    *)
(* moving mean and variance (std * std) otherwise.                        *)
BatchNormOut(x, training, p) ==
    LET nv == [c \in 1..Len(x[1][1]) |-> NormFP(GroupBatch(x, c))]
        outv(b, t, c) ==
            IF training
            THEN p.gamma[c] * nv[c][BatchIndex(x, b, t)] + p.beta[c] * Scale
            ELSE p.gamma[c] * SDiv(x[b][t][c] - p.mean * Scale, p.std)
                    + p.beta[c] * Scale
    IN  MapT(x, outv)

(* lines 76-96: ranks 2 and 3 are expanded to rank 4 for the fused        *)
(* kernel and squeezed back; the values are those of BatchNormOut.        *)
ExpandDims(shape, axis) ==
    SubSeq(shape, 1, axis) \o <<1>> \o SubSeq(shape, axis + 1, Len(shape))

Squeeze(shape, axis) ==
    SubSeq(shape, 1, axis) \o SubSeq(shape, axis + 2, Len(shape))

BatchNormShape(shape) ==
    IF Len(shape) = 2
    THEN Squeeze(Squeeze(ExpandDims(ExpandDims(shape, 1), 2), 2), 1)
    ELSE IF Len(shape) = 3 THEN Squeeze(ExpandDims(shape, 1), 1)
    ELSE shape

Recognized(type) == type \in {"bn", "ln", "ins"}

NormalizeOut_AnyCase(x, type, training, masking, p) ==
    IF type = "bn" THEN BatchNormOut(x, training, p)
    ELSE IF type \in {"ln", "ins", "LN"}
    THEN LayerNormOut(x, "ln", masking, [c \in 1..Len(x[1][1]) |-> 1],
                      [c \in 1..Len(x[1][1]) |-> 1])
    ELSE x

(* The value normalize returns (lines 70-114). *)
NormalizeOut(x, type, training, masking, p) ==
    IF type = "bn" THEN BatchNormOut(x, training, p)
    ELSE IF type \in {"ln", "ins"}
    THEN LayerNormOut(x, type, masking, p.gamma, p.beta)
    ELSE x

NormalizeShape(shape, type) ==
    IF type = "bn" THEN BatchNormShape(shape) ELSE shape

(* ---- the variables normalize creates ---- *)
BnVars == {"gamma", "beta", "moving_mean", "moving_variance"}

(* tf.Variable(...) never looks a variable up: each call makes new ones,  *)
(* under a name made unique (lines 104-105).                              *)
NextUid(st) == Cardinality({v \in st : v.name.layer = "normalize"}) \div 2

LnCreate(st, scope, C) ==
    st \cup { [name |-> VarName(scope, "normalize", NextUid(st), var),
               shape |-> <<C>>] : var \in {"beta", "gamma"} }

(* The scope a tf.layers layer without a name builds in: its base name    *)
(* under reuse, else the first of base, base_1, base_2 ... not yet opened *)
(* in the enclosing scope.  Leaving a scope forgets the scopes opened     *)
(* inside it, so only root-level ones are remembered in opened.           *)
DefaultIdx(opn, scope, layer) ==
    CHOOSE k \in 0..Cardinality(opn) :
        /\ [scope |-> scope, layer |-> layer, idx |-> k] \notin opn
        /\ \A j \in 0..(k - 1) : [scope |-> scope, layer |-> layer, idx |-> j] \in opn

LayerIdx(opn, scope, layer, layer_reuse) ==
    IF layer_reuse THEN 0 ELSE DefaultIdx(opn, scope, layer)

Opened(opn, scope, layer, idx) ==
    IF scope = "" THEN opn \cup {[scope |-> scope, layer |-> layer, idx |-> idx]}
    ELSE opn

LayerVarsOk(st, scope, layer, idx, names, shape, reuse) ==
    \A var \in names : GetVariableOk(st, VarName(scope, layer, idx, var), shape, reuse)

LayerVars(st, scope, layer, idx, names, shape, reuse) ==
    IF reuse THEN st
    ELSE st \cup { [name |-> VarName(scope, layer, idx, var), shape |-> shape] :
                     var \in names }

(* The store after normalize, called in variable scope `scope` whose      *)
(* reuse flag is `ambient`, on an input with C channels.                  *)
NormalizeStore(st, opn, scope, ambient, type, reuse, C) ==
    IF type = "bn"
    THEN LET idx == LayerIdx(opn, scope, "batch_normalization", reuse)
             ru  == reuse \/ ambient
             ok  == LayerVarsOk(st, scope, "batch_normalization", idx, BnVars, <<C>>, ru)
         IN  [ok |-> ok,
              store |-> IF ok THEN LayerVars(st, scope, "batch_normalization", idx,
                                             BnVars, <<C>>, ru)
                        ELSE st,
              opened |-> Opened(opn, scope, "batch_normalization", idx)]
    ELSE IF type \in {"ln", "ins"}
    THEN [ok |-> TRUE, store |-> LnCreate(st, scope, C), opened |-> opn]
    ELSE [ok |-> TRUE, store |-> st, opened |-> opn]

Types == {"bn", "ln", "ins", "None", "LN"}

(* Parameter valuations: scale g, g+.. per channel, shift b*c, and for    *)
(* batch mode the moving statistics.                                      *)
Gammas(C) == { [c \in 1..C |-> g] : g \in {1, 2} }

Betas(C) == { [c \in 1..C |-> b * c] : b \in {0, 1} }

NoParams == [gamma |-> <<>>, beta |-> <<>>, mean |-> 0, std |-> 1]

ParamVals(type, training, C) ==
    IF type = "bn"
    THEN { [gamma |-> g, beta |-> b, mean |-> m, std |-> m + 1] :
             g \in Gammas(C), b \in Betas(C),
             m \in IF training THEN {0} ELSE {0, 1} }
    ELSE IF type \in {"ln", "ins"}
    THEN { [gamma |-> g, beta |-> b, mean |-> 0, std |-> 1] :
             g \in Gammas(C), b \in Betas(C) }
    ELSE {NoParams}

normalize ==
    /\ pc = "idle"
    /\ Cardinality(store) < MaxVars
    /\ \E N \in {1, MaxBatch}, L \in 1..MaxLen, C \in {1, MaxChan},
          type \in Types, training \in BOOLEAN, masking \in BOOLEAN,
          reuse \in BOOLEAN :
       \E x \in Tensors(N, L, C), p \in ParamVals(type, training, C) :
         LET s    == NormalizeStore(store, opened, "", FALSE, type, reuse, C)
             args == [type |-> type, training |-> training, masking |-> masking,
                      reuse |-> reuse, inputs |-> x, params |-> p]
         IN  /\ store' = s.store
             /\ opened' = s.opened
             /\ ret' = IF s.ok
                       THEN [op |-> "normalize", args |-> args, ok |-> TRUE,
                             shape |-> NormalizeShape(Shape(x), type),
                             created |-> s.store \ store,
                             out |-> NormalizeOut(x, type, training, masking, p)]
                       ELSE [op |-> "normalize", args |-> args, ok |-> FALSE,
                             err |-> "ValueError"]
    /\ pc' = "returned"

(* ---------------------------- highwaynet ---------------------------- *)
(* tf.layers.dense on the last axis: x . kernel + bias. *)
Dense(x, kernel, bias, b, t, u) ==
    SumSeq([w \in 1..Len(x[b][t]) |-> x[b][t][w] * kernel[w][u]]) + bias[u] * Scale

Relu(z) == IF z > 0 THEN z ELSE 0

(* The logistic function at the resolution of the fixed point: 0 and 1    *)
(* (Scale) once the argument is 2 or more away from 0, linear in between. *)
Sigmoid(z) ==
    IF z >= 2 * Scale THEN Scale
    ELSE IF z <= -(2 * Scale) THEN 0
    ELSE Scale \div 2 + SDiv(z, 4)

(* line 131-132: `if not num_units` takes None and 0 alike *)
NumUnits(num_units, W) == IF num_units = 0 THEN W ELSE num_units

(* Elementwise operators broadcast an axis of size 1. *)
Broadcastable(m, n) == m = n \/ m = 1 \/ n = 1

BroadcastDim(m, n) == IF m = 1 THEN n ELSE m

At(v, c) == IF Len(v) = 1 THEN v[1] ELSE v[c]

(* lines 135-139 *)
HighwayH(x, p, units) ==
    [b \in 1..Len(x) |-> [t \in 1..Len(x[b]) |->
        [u \in 1..units |-> Relu(Dense(x, p.kernel1, p.bias1, b, t, u))]]]

HighwayT(x, p, units) ==
    [b \in 1..Len(x) |-> [t \in 1..Len(x[b]) |->
        [u \in 1..units |-> Sigmoid(Dense(x, p.kernel2, p.bias2, b, t, u))]]]

Blend(h, tg, xin) == SDiv(h * tg, Scale) + SDiv(xin * (Scale - tg), Scale)

HighwayOut(x, H, T) ==
    [b \in 1..Len(x) |-> [t \in 1..Len(x[b]) |->
        [c \in 1..BroadcastDim(Len(H[b][t]), Len(x[b][t])) |->
            Blend(At(H[b][t], c), At(T[b][t], c), At(x[b][t], c))]]]

DenseVars == {"kernel", "bias"}

DenseShape(var, W, units) == IF var = "kernel" THEN <<W, units>> ELSE <<units>>

DenseOk(st, scope, layer, W, units, reuse) ==
    \A var \in DenseVars :
        GetVariableOk(st, VarName(scope, layer, 0, var), DenseShape(var, W, units), reuse)

DenseCreate(st, scope, layer, W, units, reuse) ==
    IF reuse THEN st
    ELSE st \cup { [name |-> VarName(scope, layer, 0, var),
                    shape |-> DenseShape(var, W, units)] : var \in DenseVars }

(* Valuations of the two dense layers' parameters. *)
Kernels(W, units, vals) == { [w \in 1..W |-> [u \in 1..units |-> k]] : k \in vals }

Biases(units, vals) == { [u \in 1..units |-> v] : v \in vals }

HighwayParams(W, units) ==
    { [kernel1 |-> k1, bias1 |-> b1, kernel2 |-> k2, bias2 |-> b2] :
        k1 \in Kernels(W, units, {-1, 1}), b1 \in Biases(units, {0, 1}),
        k2 \in Kernels(W, units, {0, 1}), b2 \in Biases(units, {-2, -1, 2}) }

highwaynet ==
    /\ pc = "idle"
    /\ Cardinality(store) < MaxVars
    /\ \E N \in 1..MaxBatch, L \in 1..MaxLen, W \in 1..MaxChan,
          num_units \in 0..MaxUnits, reuse \in BOOLEAN :
       LET units == NumUnits(num_units, W) IN
       \E x \in Tensors(N, L, W), p \in HighwayParams(W, units) :
         LET args == [num_units |-> num_units, reuse |-> reuse, inputs |-> x,
                      params |-> p]
             ok1  == DenseOk(store, "highwaynet", "dense1", W, units, reuse)
             st1  == DenseCreate(store, "highwaynet", "dense1", W, units, reuse)
             ok2  == DenseOk(st1, "highwaynet", "dense2", W, units, reuse)
             st2  == DenseCreate(st1, "highwaynet", "dense2", W, units, reuse)
             H    == HighwayH(x, p, units)
             T    == HighwayT(x, p, units)
         IN  IF ~ok1
             THEN /\ store' = store
                  /\ ret' = [op |-> "highwaynet", args |-> args, ok |-> FALSE,
                             err |-> "ValueError"]
             ELSE IF ~ok2
             THEN /\ store' = st1
                  /\ ret' = [op |-> "highwaynet", args |-> args, ok |-> FALSE,
                             err |-> "ValueError"]
             ELSE /\ store' = st2
                  /\ ret' = IF Broadcastable(units, W)
                            THEN [op |-> "highwaynet", args |-> args, ok |-> TRUE,
                                  units |-> units, H |-> H, T |-> T,
                                  out |-> HighwayOut(x, H, T)]
                            ELSE [op |-> "highwaynet", args |-> args, ok |-> FALSE,
                                  err |-> "ShapeError"]
    /\ pc' = "returned"
    /\ UNCHANGED opened

(* ------------------------------ conv1d ------------------------------- *)
MaxSize == 2
MaxRate == 2
MaxConvLen == 3
MaxConvVars == 3

Lower(padding) ==
    IF padding \in {"causal", "Causal", "CAUSAL"} THEN "causal"
    ELSE IF padding \in {"same", "SAME"} THEN "same"
    ELSE IF padding \in {"valid", "VALID"} THEN "valid"
    ELSE padding

PadLen_NoRate(size, rate) == size - 1

(* line 172 *)
PadLen(size, rate) == (size - 1) * rate

(* tf.pad(inputs, [[0, 0], [left, right], [0, 0]]) *)
Pad(x, left, right) ==
    [b \in 1..Len(x) |->
        [u \in 1..left |-> Zeros(Len(x[b][1]))] \o x[b]
            \o [u \in 1..right |-> Zeros(Len(x[b][1]))]]

(* lines 170-174: causal padding pads on the left and convolves "valid" *)
CausalPad(x, padding, size, rate) ==
    IF Lower(padding) = "causal" THEN Pad(x, PadLen(size, rate), 0) ELSE x

LayerPadding(padding) == IF Lower(padding) = "causal" THEN "valid" ELSE padding

(* lines 176-177 *)
Filters(filters, C) == IF filters = 0 THEN C ELSE filters

(* tf.layers.conv1d with padding "valid": output position t reads the     *)
(* input at t, t + rate, ..., t + (size-1)*rate.                          *)
ValidLen(L, size, rate) == L - (size - 1) * rate

ConvValid(x, k, size, rate, F) ==
    [b \in 1..Len(x) |-> [t \in 1..ValidLen(Len(x[b]), size, rate) |->
        [f \in 1..F |->
            SumSeq([j \in 1..size |->
                SumSeq([ci \in 1..Len(x[b][1]) |->
                    x[b][t + (j - 1) * rate][ci] * k.kernel[j][ci][f]])])
            + (IF k.use_bias THEN k.bias[f] * Scale ELSE 0)]]]

(* padding "same" pads (size-1)*rate zeros in all, the odd one on the     *)
(* right, and convolves "valid".                                          *)
LayersConv1d(x, k, size, rate, layer_padding, F) ==
    IF Lower(layer_padding) = "same"
    THEN ConvValid(Pad(x, PadLen(size, rate) \div 2,
                       PadLen(size, rate) - PadLen(size, rate) \div 2),
                   k, size, rate, F)
    ELSE ConvValid(x, k, size, rate, F)

(* The static time length of the layer's output; below 1 the layer        *)
(* raises instead.                                                        *)
LayerOutLen(L, size, rate, layer_padding) ==
    IF Lower(layer_padding) = "same" THEN L ELSE ValidLen(L, size, rate)

Activation(x, fn) ==
    IF fn = "relu" THEN MapT(x, LAMBDA b, t, c : Relu(x[b][t][c])) ELSE x

(* tf.layers.dropout: when training with a positive rate (in percent),    *)
(* an entry is dropped or scaled by 1/(1 - rate); keep says which.        *)
Kept(keep, t, c) ==
    IF keep = "all" THEN TRUE ELSE IF keep = "none" THEN FALSE ELSE (t + c) % 2 = 0

Dropout(x, rate, training, keep) ==
    IF training /\ rate > 0
    THEN MapT(x, LAMBDA b, t, c :
                IF Kept(keep, t, c) THEN SDiv(x[b][t][c] * 100, 100 - rate) ELSE 0)
    ELSE x

(* lines 183-188 on a padded input *)
ConvPipeline(xp, a, k, p) ==
    Dropout(
        Activation(
            NormalizeOut(
                LayersConv1d(xp, k, a.size, a.rate, LayerPadding(a.padding),
                             Filters(a.filters, Len(xp[1][1]))),
                a.norm_type, a.training, FALSE, p),
            a.activation_fn),
        a.dropout_rate, a.training, a.keep)

Conv1dOut(x, a, k, p) ==
    ConvPipeline(CausalPad(x, a.padding, a.size, a.rate), a, k, p)

ConvVarNames(use_bias) == IF use_bias THEN {"kernel", "bias"} ELSE {"kernel"}

ConvVarShape(var, size, C, F) == IF var = "kernel" THEN <<size, C, F>> ELSE <<F>>

ConvVarsOk(st, scope, layer, use_bias, size, C, F, reuse) ==
    \A var \in ConvVarNames(use_bias) :
        GetVariableOk(st, VarName(scope, layer, 0, var), ConvVarShape(var, size, C, F), reuse)

ConvVars(st, scope, layer, use_bias, size, C, F, reuse) ==
    IF reuse THEN st
    ELSE st \cup { [name |-> VarName(scope, layer, 0, var),
                    shape |-> ConvVarShape(var, size, C, F)] :
                     var \in ConvVarNames(use_bias) }

(* Inputs of the convolution blocks: zero but for the frame 1, 2, ... C   *)
(* at position q, in every batch row.                                     *)
Impulse(N, L, C, q) ==
    [b \in 1..N |-> [t \in 1..L |->
        IF t = q THEN [c \in 1..C |-> c * Scale] ELSE Zeros(C)]]

(* A second input equal to x at the first `upto` positions and different  *)
(* at every later one.                                                    *)
Perturb(x, upto) ==
    [b \in 1..Len(x) |-> [t \in 1..Len(x[b]) |->
        IF t <= upto THEN x[b][t]
        ELSE [c \in 1..Len(x[b][t]) |-> x[b][t][c] + c * Scale]]]

ConvKernels(size, C, F, use_bias) ==
    { [kernel |-> [j \in 1..size |-> [ci \in 1..C |-> [f \in 1..F |->
                      w + ((j + f) % 2)]]],
       bias |-> [f \in 1..F |-> f], use_bias |-> use_bias] : w \in {1} }

ConvNormParams(type, C) ==
    IF Recognized(type)
    THEN { [gamma |-> [c \in 1..C |-> 1 + v], beta |-> [c \in 1..C |-> v * c],
            mean |-> v, std |-> 1 + v] : v \in {1} }
    ELSE {NoParams}

(* use_bias, activation_fn, dropout_rate and the dropout draw *)
ConvOptions ==
    { [use_bias |-> TRUE, activation_fn |-> "None", dropout_rate |-> 0, keep |-> "all"],
      [use_bias |-> FALSE, activation_fn |-> "relu", dropout_rate |-> 0, keep |-> "all"],
      [use_bias |-> TRUE, activation_fn |-> "None", dropout_rate |-> 50, keep |-> "some"] }

Paddings == {"SAME", "valid", "causal", "Causal"}

NormTypes == {"None", "bn", "ln", "ins"}

conv1d ==
    /\ pc = "idle"
    /\ Cardinality(store) < MaxConvVars
    /\ \E C \in {1, MaxChan}, filters \in 0..1, size \in 1..MaxSize,
          reuse \in BOOLEAN, o \in ConvOptions :
         LET F    == Filters(filters, C)
             ok1  == ConvVarsOk(store, "conv1d", "conv1d", o.use_bias, size, C, F, reuse)
             st1  == ConvVars(store, "conv1d", "conv1d", o.use_bias, size, C, F, reuse)
             fail(st, e) ==
                 /\ store' = st
                 /\ opened' = opened
                 /\ ret' = [op |-> "conv1d", ok |-> FALSE, err |-> e]
         IN  IF ~ok1 THEN fail(store, "ValueError")
             ELSE
             \E N \in {1, MaxBatch}, L \in 1..MaxConvLen, rate \in 1..MaxRate,
                padding \in Paddings, norm_type \in NormTypes, training \in BOOLEAN :
               LET a   == [filters |-> filters, size |-> size, rate |-> rate,
                           padding |-> padding, dropout_rate |-> o.dropout_rate,
                           use_bias |-> o.use_bias, norm_type |-> norm_type,
                           activation_fn |-> o.activation_fn, training |-> training,
                           reuse |-> reuse, keep |-> o.keep]
                   Lp  == IF Lower(padding) = "causal" THEN L + PadLen(size, rate)
                          ELSE L
                   okL == LayerOutLen(Lp, size, rate, LayerPadding(padding)) >= 1
                   s   == NormalizeStore(st1, opened, "conv1d", FALSE, norm_type,
                                         FALSE, F)
               IN  IF ~okL THEN fail(st1, "ShapeError")
                   ELSE IF ~s.ok THEN fail(st1, "ValueError")
                   ELSE \E upto \in 1..L,
                           k \in ConvKernels(size, C, F, o.use_bias),
                           p \in ConvNormParams(norm_type, F) :
                        LET x == Impulse(N, L, C, upto) IN
                        /\ store' = s.store
                        /\ opened' = s.opened
                        /\ ret' = [op |-> "conv1d", args |-> a, inputs |-> x,
                                   ok |-> TRUE, created |-> s.store \ store,
                                   out |-> Conv1dOut(x, a, k, p),
                                   upto |-> upto,
                                   out2 |-> Conv1dOut(Perturb(x, upto), a, k, p)]
    /\ pc' = "returned"

(* -------------------------- conv1d_transpose -------------------------- *)
MaxStride == 2

Max(a, b) == IF a > b THEN a ELSE b

(* The length a transposed convolution gives an axis of length L. *)
DeconvLen(L, size, stride, padding) ==
    IF Lower(padding) = "same" THEN L * stride
    ELSE L * stride + Max(size - stride, 0)

(* The zeros a "same" convolution of that stride pads on the left. *)
DeconvPadLeft(size, stride, padding) ==
    IF Lower(padding) = "same" THEN Max(size - stride, 0) \div 2 ELSE 0

(* tf.layers.conv2d_transpose on (N, 1, L, C), kernel (1, size), strides  *)
(* (1, stride): input position i adds x[i] * kernel[j] to output position *)
(* (i-1)*stride + j - pad_left.                                           *)
Conv2dTransposeShape(shape, F, size, stride, padding) ==
    <<shape[1], DeconvLen(shape[2], 1, 1, padding),
      DeconvLen(shape[3], size, stride, padding), F>>

Tap(o, i, stride, left) == o + left - (i - 1) * stride

Conv2dTranspose(x, k, size, stride, padding, F) ==
    [b \in 1..Len(x) |->
        [o \in 1..DeconvLen(Len(x[b]), size, stride, padding) |->
            [f \in 1..F |->
                SumSeq([i \in 1..Len(x[b]) |->
                    LET j == Tap(o, i, stride, DeconvPadLeft(size, stride, padding))
                    IN  IF j \in 1..size
                        THEN SumSeq([ci \in 1..Len(x[b][i]) |->
                                        x[b][i][ci] * k.kernel[j][ci][f]])
                        ELSE 0])
                + (IF k.use_bias THEN k.bias[f] * Scale ELSE 0)]]]

(* lines 208-221 *)
Conv1dTransposeOut(x, a, k, p) ==
    Dropout(
        Activation(
            NormalizeOut(
                Conv2dTranspose(x, k, a.size, a.stride, a.padding,
                                Filters(a.filters, Len(x[1][1]))),
                a.norm_type, a.training, FALSE, p),
            a.activation),
        a.dropout_rate, a.training, a.keep)

Conv1dTransposeShape_StridesSwapped(shape, a) ==
    NormalizeShape(
        Squeeze(<<shape[1], a.stride, shape[2], Filters(a.filters, shape[3])>>, 1),
        a.norm_type)

(* lines 208, 209-215, 216, 217: expand_dims, conv2d_transpose, squeeze,  *)
(* normalize; activation and dropout keep the shape.                      *)
Conv1dTransposeShape(shape, a) ==
    NormalizeShape(
        Squeeze(Conv2dTransposeShape(ExpandDims(shape, 1),
                                     Filters(a.filters, shape[3]),
                                     a.size, a.stride, a.padding), 1),
        a.norm_type)

DeconvVarShape(var, size, C, F) == IF var = "kernel" THEN <<1, size, F, C>> ELSE <<F>>

DeconvVarsOk(st, scope, layer, use_bias, size, C, F, reuse) ==
    \A var \in ConvVarNames(use_bias) :
        GetVariableOk(st, VarName(scope, layer, 0, var),
                      DeconvVarShape(var, size, C, F), reuse)

DeconvVars(st, scope, layer, use_bias, size, C, F, reuse) ==
    IF reuse THEN st
    ELSE st \cup { [name |-> VarName(scope, layer, 0, var),
                    shape |-> DeconvVarShape(var, size, C, F)] :
                     var \in ConvVarNames(use_bias) }

TransposePaddings == {"same", "SAME", "valid"}

conv1d_transpose ==
    /\ pc = "idle"
    /\ Cardinality(store) < MaxConvVars
    /\ \E C \in {1, MaxChan}, filters \in 0..1, size \in 1..MaxSize,
          reuse \in BOOLEAN, o \in ConvOptions :
         LET F    == Filters(filters, C)
             ok1  == DeconvVarsOk(store, "conv1d_transpose", "conv2d_transpose",
                                  o.use_bias, size, C, F, reuse)
             st1  == DeconvVars(store, "conv1d_transpose", "conv2d_transpose",
                                o.use_bias, size, C, F, reuse)
             fail(st, e) ==
                 /\ store' = st
                 /\ opened' = opened
                 /\ ret' = [op |-> "conv1d_transpose", ok |-> FALSE, err |-> e]
         IN  IF ~ok1 THEN fail(store, "ValueError")
             ELSE
             \E N \in {1, MaxBatch}, L \in 1..MaxConvLen, stride \in 1..MaxStride,
                padding \in TransposePaddings, norm_type \in NormTypes,
                training \in BOOLEAN :
               LET a == [filters |-> filters, size |-> size, stride |-> stride,
                         padding |-> padding, dropout_rate |-> o.dropout_rate,
                         use_bias |-> o.use_bias, norm_type |-> norm_type,
                         activation |-> o.activation_fn, training |-> training,
                         reuse |-> reuse, keep |-> o.keep]
                   s == NormalizeStore(st1, opened, "conv1d_transpose", reuse,
                                       norm_type, FALSE, F)
               IN  IF ~s.ok THEN fail(st1, "ValueError")
                   ELSE \E q \in 1..L,
                           k \in ConvKernels(size, C, F, o.use_bias),
                           p \in ConvNormParams(norm_type, F) :
                        LET x == Impulse(N, L, C, q) IN
                        /\ store' = s.store
                        /\ opened' = s.opened
                        /\ ret' = [op |-> "conv1d_transpose", args |-> a,
                                   inputs |-> x, ok |-> TRUE,
                                   created |-> s.store \ store,
                                   shape |-> Conv1dTransposeShape(Shape(x), a),
                                   out |-> Conv1dTransposeOut(x, a, k, p)]
    /\ pc' = "returned"

(* The caller takes the returned tensor (or the raised error) and goes on.*)
CallerContinues ==
    /\ pc = "returned"
    /\ pc' = "idle"
    /\ ret' = NoRet
    /\ UNCHANGED <<store, opened>>

Init ==
    /\ store = {}
    /\ opened = {}
    /\ pc = "idle"
    /\ ret = NoRet

NextEmbed == embed \/ CallerContinues

SpecEmbed == Init /\ [][NextEmbed]_vars

NextNorm == normalize \/ CallerContinues

SpecNorm == Init /\ [][NextNorm]_vars

NextHighway == highwaynet \/ CallerContinues

SpecHighway == Init /\ [][NextHighway]_vars

NextConv == conv1d \/ CallerContinues

SpecConv == Init /\ [][NextConv]_vars

NextUp == conv1d_transpose \/ CallerContinues

SpecUp == Init /\ [][NextUp]_vars

(* ============================== claims =============================== *)

(* C1: conv1d with padding "causal" (any case): two inputs that agree at  *)
(* the first upto positions give outputs that agree at those positions,   *)
(* whatever the other arguments, norm_type included.                      *)
Causality ==
    (ret.op = "conv1d" /\ ret.ok /\ Lower(ret.args.padding) = "causal")
        => \A b \in 1..Len(ret.out) : \A t \in 1..ret.upto :
              ret.out[b][t] = ret.out2[b][t]

(* C1, checked for comparison: the same with the normalizations that      *)
(* reduce over the time axis (ins, and bn on batch statistics) left out.  *)
CausalityWithoutTimeReduction ==
    (/\ ret.op = "conv1d" /\ ret.ok /\ Lower(ret.args.padding) = "causal"
     /\ ret.args.norm_type # "ins"
     /\ ~(ret.args.norm_type = "bn" /\ ret.args.training))
        => \A b \in 1..Len(ret.out) : \A t \in 1..ret.upto :
              ret.out[b][t] = ret.out2[b][t]

(* C2: embed with zero_pad maps id 0 to the zero vector and every id in   *)
(* 1..vocab_size-1 to its stored row; stored row 0 is in no output.       *)
ZeroPadInvariant ==
    (ret.op = "embed" /\ ret.ok /\ ret.args.zero_pad)
        => \A k \in 1..Len(ret.args.ids) :
              /\ ret.args.ids[k] = 0 => ret.out[k] = Zeros(ret.args.num_units)
              /\ ret.args.ids[k] \in 1..(ret.args.vocab_size - 1)
                    => ret.out[k] = ret.args.table[ret.args.ids[k] + 1]
              /\ ret.out[k] # ret.args.table[1]

ZeroPadWitness ==
    /\ ret.op = "embed" /\ ret.ok /\ ret.args.zero_pad
    /\ ret.args.vocab_size >= 2
    /\ \E k \in 1..Len(ret.args.ids) : ret.args.ids[k] = 0
    /\ \E k \in 1..Len(ret.args.ids) : ret.args.ids[k] >= 1
    /\ ret.args.table[1] # Zeros(ret.args.num_units)

(* C3: normalize in mode ln or ins with masking: every position whose     *)
(* input vector sums to 0 has an all-zero output vector, whatever the     *)
(* scale and shift.                                                       *)
MaskingInvariant ==
    (ret.op = "normalize" /\ ret.ok /\ ret.args.type \in {"ln", "ins"}
        /\ ret.args.masking)
        => \A b \in 1..Len(ret.out) : \A t \in 1..Len(ret.out[b]) :
              SumSeq(ret.args.inputs[b][t]) = 0
                  => ret.out[b][t] = Zeros(Len(ret.out[b][t]))

(* C3, checked for comparison: the same when the shift is zero.           *)
MaskingInvariantZeroShift ==
    (ret.op = "normalize" /\ ret.ok /\ ret.args.type \in {"ln", "ins"}
        /\ ret.args.masking
        /\ ret.args.params.beta = Zeros(Len(ret.args.params.beta)))
        => \A b \in 1..Len(ret.out) : \A t \in 1..Len(ret.out[b]) :
              SumSeq(ret.args.inputs[b][t]) = 0
                  => ret.out[b][t] = Zeros(Len(ret.out[b][t]))

UpsampleLength ==
    (ret.op = "conv1d_transpose" /\ ret.ok /\ Lower(ret.args.padding) = "same")
        => LET x == ret.inputs
               L == Len(x[1])
           IN  /\ \A b \in 1..Len(ret.out) : Len(ret.out[b]) = L * ret.args.stride
               /\ Len(ret.shape) = 3
               /\ ret.shape = Shape(ret.out)
               /\ ret.shape[1] = Len(x)
               /\ ret.shape[2] = L * ret.args.stride

UpsampleLengthWitness ==
    /\ ret.op = "conv1d_transpose" /\ ret.ok
    /\ Lower(ret.args.padding) = "same"
    /\ ret.args.stride = 2 /\ ret.args.size = 1
    /\ Len(ret.inputs[1]) = 3
    /\ Len(ret.out[1]) = 6

(* C6: embed fails with an IndexError exactly when some id is outside     *)
(* 0..vocab_size-1.                                                       *)
OutOfRangeRejected ==
    (ret.op = "embed" /\ (ret.ok \/ ret.err = "IndexError"))
        => LET inside == \A k \in 1..Len(ret.args.ids) :
                            ret.args.ids[k] \in 0..(ret.args.vocab_size - 1)
           IN  ret.ok <=> inside

(* C7: highwaynet returns a tensor of the input's shape for every         *)
(* num_units it accepts, and builds both dense layers with as many units  *)
(* as the input has channels when num_units is not given.                 *)
HighwayShape ==
    (ret.op = "highwaynet" /\ ret.ok)
        => /\ Shape(ret.out) = Shape(ret.args.inputs)
           /\ ret.args.num_units = 0 => ret.units = Len(ret.args.inputs[1][1])

(* C8: where the gate T is 1 at every element the output is H, and where  *)
(* it is 0 at every element the output is the input.                      *)
AllEntries(x, v) ==
    \A b \in 1..Len(x) : \A t \in 1..Len(x[b]) : \A c \in 1..Len(x[b][t]) :
        x[b][t][c] = v

HighwayBlend ==
    (ret.op = "highwaynet" /\ ret.ok)
        => /\ AllEntries(ret.T, Scale) => ret.out = ret.H
           /\ AllEntries(ret.T, 0) => ret.out = ret.args.inputs

(* C8, checked for comparison: the same when the layer is as wide as the  *)
(* input.                                                                 *)
HighwayBlendSameWidth ==
    (ret.op = "highwaynet" /\ ret.ok /\ ret.units = Len(ret.args.inputs[1][1]))
        => /\ AllEntries(ret.T, Scale) => ret.out = ret.H
           /\ AllEntries(ret.T, 0) => ret.out = ret.args.inputs

(* C9: a call that asks for reuse, of a layer that an earlier call with   *)
(* the same scope and channel count has built, creates no variable.       *)
BuiltBefore(st, args) ==
    \E v \in st :
        /\ v.name.scope = ""
        /\ v.name.layer = IF args.type = "bn" THEN "batch_normalization"
                          ELSE "normalize"
        /\ v.shape = <<Len(args.inputs[1][1])>>

NoPerCallAllocation ==
    (/\ ret.op = "normalize" /\ ret.ok /\ ret.args.reuse
     /\ Recognized(ret.args.type)
     /\ BuiltBefore(store \ ret.created, ret.args))
        => ret.created = {}

(* C10: a mode other than bn, ln and ins raises nothing, creates nothing  *)
(* and returns the input as it is.                                        *)
PermissiveFallback ==
    (ret.op = "normalize" /\ ~Recognized(ret.args.type))
        => /\ ret.ok
           /\ ret.out = ret.args.inputs
           /\ ret.shape = Shape(ret.args.inputs)
           /\ ret.created = {}

PermissiveFallbackWitness ==
    /\ ret.op = "normalize" /\ ret.ok
    /\ ret.args.type = "LN"
    /\ ret.args.masking /\ ret.args.training
    /\ \E b \in 1..Len(ret.out) : \E t \in 1..Len(ret.out[b]) :
          ret.out[b][t] # Zeros(Len(ret.out[b][t]))

====
